---- MODULE Spec2Model ----
(***************************************************************************)
(* MatchAPI (cassiopeia/datastores/riotapi/match.py): the six pipelines    *)
(* registered on get / get_many, the two lazy generators, the call log of  *)
(* a stub transport and the log of rate-limiter lookups.                   *)
(*                                                                         *)
(* A query is a mapping: a function whose DOMAIN is the set of keys that   *)
(* are "in" it.  The caller owns the mapping, and the pipelines rewrite it *)
(* in place.                                                               *)
(***************************************************************************)
EXTENDS Integers, Sequences, FiniteSets, TLC

VARIABLES
    pipeline,      \* the pipeline the caller invoked, "none" before the call
    input,         \* the mapping as the caller passed it
    query,         \* the same mapping as it is now (rewritten in place)
    outcome,       \* what the call returned or raised
    result,        \* the DTO a get pipeline returned, or the last DTO yielded
    raw,           \* the payload of the last successful fetch, as received
    calls,         \* the requests handed to _get, in order
    responses,     \* the transport's answer to each request, in order
    acquisitions,  \* the limiter pairs handed out by _get_rate_limiter
    gen,           \* the generator object of a get_many pipeline
    advances,      \* how many times the consumer called next()
    lastNext,      \* what the last next() did
    yielded        \* the ids of the records yielded so far

vars == <<pipeline, input, query, outcome, result, raw, calls, responses,
          acquisitions, gen, advances, lastNext, yielded>>

(***************************************************************************)
(* Bounds                                                                  *)
(***************************************************************************)
MaxIds == 2
MaxParticipants == 1

(***************************************************************************)
(* Data the pipelines import                                               *)
(***************************************************************************)
Continents == {"AMERICAS", "ASIA", "EUROPE"}
Regions == {"KR"}
Platforms == {"EUW1"}

RegionContinent == [r \in Regions |-> "ASIA"]
PlatformContinent == [p \in Platforms |-> "EUROPE"]
ContinentRegion == [c \in Continents |->
    IF c = "AMERICAS" THEN "NA" ELSE IF c = "ASIA" THEN "KR" ELSE "EUW"]
PlatformHosts == {"euw1"}

\* str.lower() on the values that reach it
Lower(s) ==
    CASE s = "AMERICAS" -> "americas"
      [] s = "ASIA"     -> "asia"
      [] s = "EUROPE"   -> "europe"
      [] OTHER          -> s

LocationKeys == {"continent", "region", "platform"}
None == "None"
NoValue == <<>>

Put(q, k, v) == (k :> v) @@ q

RECURSIVE SeqsUpTo(_, _)
SeqsUpTo(S, n) ==
    IF n = 0 THEN {<<>>}
    ELSE LET shorter == SeqsUpTo(S, n - 1)
         IN shorter \cup {Append(s, e) : s \in {t \in shorter : Len(t) = n - 1}, e \in S}

\* an optional key: the empty mapping, or the key bound to one of Vals
Opt(k, Vals) == {NoValue} \cup {k :> v : v \in Vals}

Ids == {"m1", "m2"}
\* the three hints name three different continents when all are given
LocationHints ==
    {c @@ r @@ p : c \in Opt("continent", {"AMERICAS"}),
                   r \in Opt("region", Regions),
                   p \in Opt("platform", Platforms)}
MatchQueries == {i @@ l : i \in Opt("id", {"m1"}), l \in LocationHints}
\* id lists of a batch: no id twice in a row
IdLists == {s \in SeqsUpTo(Ids, MaxIds) : \A i \in 1..(Len(s) - 1) : s[i] # s[i + 1]}
ManyQueries == {i @@ l : i \in Opt("ids", IdLists), l \in LocationHints}
MatchListQueries ==
    {u @@ l @@ b @@ m @@ qu @@ t :
        u \in Opt("puuid", {"u1"}), l \in LocationHints,
        b \in Opt("beginIndex", {0, 20}),
        m \in Opt("maxNumberOfMatches", {0, 5, 150}),
        qu \in Opt("queue", {"RANKED_SOLO"}),
        t \in Opt("type", {"ranked"})}
ManyMatchListQueries ==
    {u @@ l : u \in Opt("puuid", {<<"u1">>}), l \in LocationHints}

(***************************************************************************)
(* Query validation                                                        *)
(***************************************************************************)
HasLocation(q) == LocationKeys \cap DOMAIN q # {}

_validate_get_match_query_open(q) == "id" \in DOMAIN q
_validate_get_match_query(q) == "id" \in DOMAIN q /\ HasLocation(q)
_validate_get_many_match_query(q) == "ids" \in DOMAIN q /\ HasLocation(q)
_validate_get_match_list_query(q) == "puuid" \in DOMAIN q /\ HasLocation(q)
_validate_get_many_match_list_query(q) == "puuid" \in DOMAIN q /\ HasLocation(q)
_validate_get_timeline_query(q) == "id" \in DOMAIN q /\ HasLocation(q)
_validate_get_many_timeline_query(q) == "ids" \in DOMAIN q /\ HasLocation(q)

(***************************************************************************)
(* Region resolution: the two ifs every resolving pipeline starts with     *)
(***************************************************************************)
ResolveContinent_continent_first(q) ==
    IF "continent" \in DOMAIN q THEN q
    ELSE IF "region" \in DOMAIN q THEN Put(q, "continent", RegionContinent[q.region])
    ELSE IF "platform" \in DOMAIN q THEN Put(q, "continent", PlatformContinent[q.platform])
    ELSE q
ResolveContinent(q) ==
    LET q1 == IF "region" \in DOMAIN q
              THEN Put(q, "continent", RegionContinent[q.region]) ELSE q
    IN IF "platform" \in DOMAIN q1
       THEN Put(q1, "continent", PlatformContinent[q1.platform]) ELSE q1

(***************************************************************************)
(* Rate limiter lookup and the guarded call                                *)
(***************************************************************************)
\* the pair _get_rate_limiter hands out on its n-th use
_get_rate_limiter(continent, endpoint, n) ==
    [app_limiter    |-> [continent |-> continent, lookup |-> n],
     method_limiter |-> [continent |-> continent, endpoint |-> endpoint, lookup |-> n]]

\* self._get(url, params, app_limiter=..., method_limiter=...)
Request(url, params, pair) ==
    [url |-> url, params |-> params,
     app_limiter |-> pair.app_limiter, method_limiter |-> pair.method_limiter]

\* the limiter log after the lookup that precedes a call
AcquireForCall_reuse(acqs, continent, endpoint) ==
    IF acqs = <<>> THEN <<_get_rate_limiter(continent, endpoint, 1)>> ELSE acqs
AcquireForCall(acqs, continent, endpoint) ==
    Append(acqs, _get_rate_limiter(continent, endpoint, Len(acqs) + 1))

Url(host, version, resource, id) ==
    [host |-> host, version |-> version, resource |-> resource, id |-> id]

FetchStatus == {"ok", "not_found", "transport_error"}

\* the bodies the transport can return with a status: only "ok" carries one
Bodies(status, Payloads) ==
    IF status = "ok" THEN Payloads ELSE {CHOOSE d \in Payloads : TRUE}

(***************************************************************************)
(* Payloads the remote service can answer with                             *)
(***************************************************************************)
\* match-v5 participant: puuid missing, null, or a string
V5Participants == {[participantId |-> 1] @@ u : u \in Opt("puuid", {None, "p1"})}
MatchV5Payloads ==
    {[metadata |-> "meta", info |-> [gameMode |-> "CLASSIC", participants |-> ps]] :
        ps \in SeqsUpTo(V5Participants, MaxParticipants)}

\* match-v4 participant (runes omitted when empty) and participant identity
V4Participants == {[participantId |-> 1] @@ r : r \in Opt("runes", {<<"r1">>})}
V4Players == {[summonerName |-> "s", currentAccountId |-> a] : a \in {0, 7}}
V4Identities == {[participantId |-> 1] @@ pl : pl \in Opt("player", V4Players)}
\* a match has one identity per participant
MatchV4Payloads ==
    {pl \in [participants : SeqsUpTo(V4Participants, MaxParticipants),
             participantIdentities : SeqsUpTo(V4Identities, MaxParticipants)] :
        Len(pl.participants) = Len(pl.participantIdentities)}

TimelinePayloads == {[frameInterval |-> 60000]}
MatchListPayloads == {<<>>, <<"m1", "m2">>}

(***************************************************************************)
(* Response normalisation                                                  *)
(***************************************************************************)
\* p.get("puuid", None)
GetPuuid(p) == IF "puuid" \in DOMAIN p THEN p.puuid ELSE None

MarkBotV5_only_true(p) == IF GetPuuid(p) = None THEN Put(p, "bot", TRUE) ELSE p
MarkBotV5(p) == IF GetPuuid(p) = None THEN Put(p, "bot", TRUE) ELSE Put(p, "bot", FALSE)

\* data = data["info"]; data["continent"] = ...; the loop over participants
NormalizeMatchV5(data, continent) ==
    LET info == data.info
    IN Put(Put(info, "continent", continent), "participants",
           [i \in DOMAIN info.participants |-> MarkBotV5(info.participants[i])])

\* participant.setdefault("runes", [])
SetDefaultRunes(p) == IF "runes" \in DOMAIN p THEN p ELSE Put(p, "runes", <<>>)

\* aid = p.get("player", {}).get("currentAccountId", None); if aid == 0: ...
AidIsZero(p) ==
    /\ "player" \in DOMAIN p
    /\ "currentAccountId" \in DOMAIN p.player
    /\ p.player.currentAccountId = 0
MarkBotV4(p) == IF AidIsZero(p) THEN Put(p, "player", Put(p.player, "bot", TRUE)) ELSE p

NormalizeMatchV4(data, id, continent) ==
    LET d1 == Put(data, "participants",
                  [i \in DOMAIN data.participants |-> SetDefaultRunes(data.participants[i])])
        d2 == Put(d1, "participantIdentities",
                  [i \in DOMAIN data.participantIdentities |->
                      MarkBotV4(data.participantIdentities[i])])
    IN Put(Put(d2, "gameId", id), "region", ContinentRegion[continent])

NormalizeTimeline(data, id, continent) ==
    Put(Put(data, "matchId", id), "continent", continent)

(***************************************************************************)
(* get_match_list: request parameters and the not-found policy             *)
(***************************************************************************)
riot_index_interval == 100

\* query.get("beginIndex", 0)
StartParam(q) == IF "beginIndex" \in DOMAIN q THEN q.beginIndex ELSE 0

\* query.get("maxNumberOfMatches", None) or riot_index_interval
CountParam_no_or(q) ==
    IF "maxNumberOfMatches" \in DOMAIN q THEN q.maxNumberOfMatches ELSE riot_index_interval
CountParam(q) ==
    IF "maxNumberOfMatches" \in DOMAIN q /\ q.maxNumberOfMatches # 0
    THEN q.maxNumberOfMatches ELSE riot_index_interval

\* params after the queue and type blocks; qid is QUEUE_IDS[QUEUE_IDS[queue]]
MatchListParams(q, qid) ==
    LET p0 == [start |-> StartParam(q), count |-> CountParam(q)]
        p1 == IF "queue" \in DOMAIN q THEN Put(p0, "queue", qid) ELSE p0
    IN IF "type" \in DOMAIN q THEN Put(p1, "type", q.type) ELSE p1

\* what each get pipeline does with APINotFoundError
match_list_on_not_found_raise == [outcome |-> "NotFoundError", data |-> <<>>]
match_list_on_not_found == [outcome |-> "MatchListDto", data |-> <<>>]
match_on_not_found == [outcome |-> "NotFoundError"]
timeline_on_not_found == [outcome |-> "NotFoundError"]

\* the body of get_many_match_list
get_many_match_list_body_empty == "generator"
get_many_match_list_body == "NotImplementedError"

(***************************************************************************)
(* The dispatch registry: (record type, cardinality) -> pipeline           *)
(***************************************************************************)
Registry ==
    [get      |-> [MatchDto |-> "get_match", MatchListDto |-> "get_match_list",
                   TimelineDto |-> "get_match_timeline"],
     get_many |-> [MatchDto |-> "get_many_match", MatchListDto |-> "get_many_match_list",
                   TimelineDto |-> "get_many_match_timeline"]]

(***************************************************************************)
(* Initial state                                                           *)
(***************************************************************************)
NoGen == [state |-> "none", continent |-> None, idx |-> 0]

Init ==
    /\ pipeline = "none"
    /\ input = NoValue
    /\ query = NoValue
    /\ outcome = "none"
    /\ result = NoValue
    /\ raw = NoValue
    /\ calls = <<>>
    /\ responses = <<>>
    /\ acquisitions = <<>>
    /\ gen = NoGen
    /\ advances = 0
    /\ lastNext = "none"
    /\ yielded = <<>>

\* a get pipeline ends: nothing of the generator machinery is touched
Finish(name, q0, q1, out, res, rw, cs, rs, acqs) ==
    /\ pipeline' = name
    /\ input' = q0
    /\ query' = q1
    /\ outcome' = out
    /\ result' = res
    /\ raw' = rw
    /\ calls' = cs
    /\ responses' = rs
    /\ acquisitions' = acqs
    /\ UNCHANGED <<gen, advances, lastNext, yielded>>

\* a pipeline ends before any limiter lookup or call
FinishEarly(name, q0, q1, out) ==
    Finish(name, q0, q1, out, NoValue, NoValue, calls, responses, acquisitions)

(***************************************************************************)
(* get(MatchDto)                                                           *)
(***************************************************************************)
get_match ==
    /\ pipeline = "none"
    /\ \E q \in MatchQueries :
        IF ~_validate_get_match_query(q)
        THEN FinishEarly("get_match", q, q, "ValidationError")
        ELSE LET rq == ResolveContinent(q) IN
             IF ~({"continent", "id"} \subseteq DOMAIN rq)
             THEN FinishEarly("get_match", q, rq, "KeyError")
             ELSE LET continent == rq.continent
                      url == Url(continent, "v5", "matches", rq.id)
                      acqs == AcquireForCall(acquisitions, continent, "matches/id")
                      req == Request(url, <<>>, acqs[Len(acqs)])
                  IN \E status \in FetchStatus : \E data \in Bodies(status, MatchV5Payloads) :
                        CASE status = "ok" ->
                               Finish("get_match", q, rq, "MatchDto",
                                      NormalizeMatchV5(data, continent), data,
                                      Append(calls, req), Append(responses, status), acqs)
                          [] status = "not_found" ->
                               Finish("get_match", q, rq, match_on_not_found.outcome,
                                      NoValue, NoValue,
                                      Append(calls, req), Append(responses, status), acqs)
                          [] OTHER ->
                               Finish("get_match", q, rq, "TransportError",
                                      NoValue, NoValue,
                                      Append(calls, req), Append(responses, status), acqs)

(***************************************************************************)
(* get(MatchListDto)                                                       *)
(***************************************************************************)
\* QUEUE_IDS is imported; whether it has an entry for its own values is not
\* decided here, so the second lookup either succeeds or raises KeyError.
get_match_list ==
    /\ pipeline = "none"
    /\ \E q \in MatchListQueries :
        IF ~_validate_get_match_list_query(q)
        THEN FinishEarly("get_match_list", q, q, "ValidationError")
        ELSE LET rq == ResolveContinent(q) IN
             \E second_lookup_ok \in BOOLEAN :
             IF \/ ~({"continent", "puuid"} \subseteq DOMAIN rq)
                \/ ("queue" \in DOMAIN rq /\ ~second_lookup_ok)
             THEN FinishEarly("get_match_list", q, rq, "KeyError")
             ELSE LET params == MatchListParams(rq, "QUEUE_IDS[QUEUE_IDS[queue]]")
                      queue == IF "queue" \in DOMAIN rq THEN "QUEUE_IDS[queue]" ELSE None
                      type_ == IF "type" \in DOMAIN rq THEN rq.type ELSE None
                      continent == rq.continent
                      puuid == rq.puuid
                      url == Url(Lower(continent), "v5", "matches/by-puuid", puuid)
                      acqs == AcquireForCall(acquisitions, continent, "matches/by-puuid/puuid")
                      req == Request(url, params, acqs[Len(acqs)])
                      dto(data) == [match_ids |-> data, continent |-> continent,
                                    puuid |-> puuid, type |-> type_, queue |-> queue]
                  IN \E status \in FetchStatus : \E data \in Bodies(status, MatchListPayloads) :
                        CASE status = "ok" ->
                               Finish("get_match_list", q, rq, "MatchListDto", dto(data), data,
                                      Append(calls, req), Append(responses, status), acqs)
                          [] status = "not_found" ->
                               Finish("get_match_list", q, rq, match_list_on_not_found.outcome,
                                      IF match_list_on_not_found.outcome = "MatchListDto"
                                      THEN dto(match_list_on_not_found.data) ELSE NoValue,
                                      NoValue,
                                      Append(calls, req), Append(responses, status), acqs)
                          [] OTHER ->
                               Finish("get_match_list", q, rq, "TransportError",
                                      NoValue, NoValue,
                                      Append(calls, req), Append(responses, status), acqs)

(***************************************************************************)
(* get_many(MatchListDto)                                                  *)
(***************************************************************************)
get_many_match_list ==
    /\ pipeline = "none"
    /\ \E q \in ManyMatchListQueries :
        IF ~_validate_get_many_match_list_query(q)
        THEN FinishEarly("get_many_match_list", q, q, "ValidationError")
        ELSE FinishEarly("get_many_match_list", q, q, get_many_match_list_body)

(***************************************************************************)
(* get(TimelineDto)                                                        *)
(***************************************************************************)
get_match_timeline ==
    /\ pipeline = "none"
    /\ \E q \in MatchQueries :
        IF ~_validate_get_timeline_query(q)
        THEN FinishEarly("get_match_timeline", q, q, "ValidationError")
        ELSE LET rq == ResolveContinent(q) IN
             IF ~({"continent", "id"} \subseteq DOMAIN rq)
             THEN FinishEarly("get_match_timeline", q, rq, "KeyError")
             ELSE LET continent == rq.continent
                      id == rq.id
                      url == Url(Lower(continent), "v4", "timelines/by-match", id)
                      acqs == AcquireForCall(acquisitions, rq.continent, "timelines/by-match/id")
                      req == Request(url, <<>>, acqs[Len(acqs)])
                  IN \E status \in FetchStatus : \E data \in Bodies(status, TimelinePayloads) :
                        CASE status = "ok" ->
                               Finish("get_match_timeline", q, rq, "TimelineDto",
                                      NormalizeTimeline(data, rq.id, rq.continent), data,
                                      Append(calls, req), Append(responses, status), acqs)
                          [] status = "not_found" ->
                               Finish("get_match_timeline", q, rq, timeline_on_not_found.outcome,
                                      NoValue, NoValue,
                                      Append(calls, req), Append(responses, status), acqs)
                          [] OTHER ->
                               Finish("get_match_timeline", q, rq, "TransportError",
                                      NoValue, NoValue,
                                      Append(calls, req), Append(responses, status), acqs)

(***************************************************************************)
(* get_many(MatchDto) and get_many(TimelineDto): the call itself           *)
(***************************************************************************)
\* validation and region resolution run at the call; the body of generator()
\* does not: the call returns the generator object, not yet started
CreateGenerator(name, q, valid) ==
    IF ~valid
    THEN FinishEarly(name, q, q, "ValidationError")
    ELSE LET rq == ResolveContinent(q) IN
         IF "continent" \notin DOMAIN rq
         THEN FinishEarly(name, q, rq, "KeyError")
         ELSE /\ pipeline' = name
              /\ input' = q
              /\ query' = rq
              /\ outcome' = "generator"
              /\ gen' = [state |-> "created", continent |-> rq.continent, idx |-> 0]
              /\ UNCHANGED <<result, raw, calls, responses, acquisitions,
                             advances, lastNext, yielded>>

get_many_match ==
    /\ pipeline = "none"
    /\ \E q \in ManyQueries :
        CreateGenerator("get_many_match", q, _validate_get_many_match_query(q))

get_many_match_timeline ==
    /\ pipeline = "none"
    /\ \E q \in ManyQueries :
        CreateGenerator("get_many_match_timeline", q, _validate_get_many_timeline_query(q))

(***************************************************************************)
(* The generators: one next() of the consumer                              *)
(***************************************************************************)
\* the consumer gives up after two next() calls past the last id
MaxAdvances == MaxIds + 2

\* the generator after the fetch of one element: a yield suspends it, a raise
\* out of its body finishes it
GeneratorAfterFetch_continue(status) ==
    IF status = "transport_error" THEN "finished" ELSE "suspended"
GeneratorAfterFetch(status) ==
    IF status = "ok" THEN "suspended" ELSE "finished"

NextOutcome(status) ==
    CASE status = "ok" -> "yield"
      [] status = "not_found" -> "NotFoundError"
      [] OTHER -> "TransportError"

\* next() on a generator that has finished, or whose loop has run out of ids
StopIteration ==
    /\ gen' = [gen EXCEPT !.state = "finished"]
    /\ advances' = advances + 1
    /\ lastNext' = "StopIteration"
    /\ UNCHANGED <<pipeline, input, query, outcome, result, raw, calls, responses,
                   acquisitions, yielded>>

\* one pass through the loop body: url from the captured continent, limiter
\* pair and derived fields from query["continent"] as it is now
GeneratorStep(version, resource, endpoint, Payloads) ==
    LET id == query.ids[gen.idx + 1]
        url == Url(Lower(gen.continent), version, resource, id)
        acqs == AcquireForCall(acquisitions, query.continent, endpoint)
        req == Request(url, <<>>, acqs[Len(acqs)])
    IN \E status \in FetchStatus : \E data \in Bodies(status, Payloads) :
        /\ acquisitions' = acqs
        /\ calls' = Append(calls, req)
        /\ responses' = Append(responses, status)
        /\ gen' = [gen EXCEPT !.state = GeneratorAfterFetch(status), !.idx = gen.idx + 1]
        /\ advances' = advances + 1
        /\ lastNext' = NextOutcome(status)
        /\ IF status = "ok"
           THEN /\ raw' = data
                /\ result' = IF resource = "matches"
                             THEN NormalizeMatchV4(data, id, query.continent)
                             ELSE NormalizeTimeline(data, id, query.continent)
                /\ yielded' = Append(yielded, id)
           ELSE UNCHANGED <<raw, result, yielded>>
        /\ UNCHANGED <<pipeline, input, query, outcome>>

match_generator_next ==
    /\ pipeline = "get_many_match"
    /\ outcome = "generator"
    /\ advances < MaxAdvances
    /\ IF gen.state = "finished" \/ gen.idx >= Len(query.ids)
       THEN StopIteration
       ELSE GeneratorStep("v4", "matches", "matches/id", MatchV4Payloads)

timeline_generator_next ==
    /\ pipeline = "get_many_match_timeline"
    /\ outcome = "generator"
    /\ advances < MaxAdvances
    /\ IF gen.state = "finished" \/ gen.idx >= Len(query.ids)
       THEN StopIteration
       ELSE GeneratorStep("v4", "timelines/by-match", "timelines/by-match/id",
                          TimelinePayloads)

\* the caller rewrites the mapping it passed while the generator is alive
CallerRewritesQuery ==
    /\ pipeline \in {"get_many_match", "get_many_match_timeline"}
    /\ outcome = "generator"
    /\ gen.state # "finished"
    /\ \E c \in Continents \ {query.continent} :
          query' = Put(query, "continent", c)
    /\ UNCHANGED <<pipeline, input, outcome, result, raw, calls, responses,
                   acquisitions, gen, advances, lastNext, yielded>>

Next ==
    \/ get_match
    \/ get_many_match
    \/ match_generator_next
    \/ get_match_list
    \/ get_many_match_list
    \/ get_match_timeline
    \/ get_many_match_timeline
    \/ timeline_generator_next
    \/ CallerRewritesQuery

Spec == Init /\ [][Next]_vars

(***************************************************************************)
(* Properties                                                              *)
(***************************************************************************)
GetPipelines == {"get_match", "get_match_list", "get_match_timeline"}
GetManyPipelines == {"get_many_match", "get_many_match_timeline"}

RequiredKey ==
    [get_match |-> "id", get_many_match |-> "ids", get_match_list |-> "puuid",
     get_many_match_list |-> "puuid", get_match_timeline |-> "id",
     get_many_match_timeline |-> "ids"]

EndpointFamily ==
    [get_match |-> "matches/id", get_many_match |-> "matches/id",
     get_match_list |-> "matches/by-puuid/puuid",
     get_match_timeline |-> "timelines/by-match/id",
     get_many_match_timeline |-> "timelines/by-match/id"]

AllOk == \A i \in DOMAIN responses : responses[i] = "ok"

\* the pipeline got as far as fixing the continent it works with
HasResolved ==
    \/ pipeline \in GetManyPipelines /\ outcome = "generator"
    \/ pipeline \in GetPipelines /\ calls # <<>>
\* that continent: the one captured by the generator, or the one the call was keyed by
Resolved == IF outcome = "generator" THEN gen.continent ELSE calls[1].app_limiter.continent

ContinentFirst(q) ==
    IF "continent" \in DOMAIN q THEN q.continent
    ELSE IF "region" \in DOMAIN q THEN RegionContinent[q.region]
    ELSE PlatformContinent[q.platform]
PlatformFirst(q) ==
    IF "platform" \in DOMAIN q THEN PlatformContinent[q.platform]
    ELSE IF "region" \in DOMAIN q THEN RegionContinent[q.region]
    ELSE q.continent

\* C1: a get-many call by itself makes no network call and no limiter lookup;
\* while every fetch succeeds, k <= N advances have made exactly k calls and
\* exactly k limiter-pair lookups; never more calls than advances or than ids.
C1_LazyFetch ==
    (pipeline \in GetManyPipelines /\ outcome = "generator") =>
        /\ advances = 0 => (calls = <<>> /\ acquisitions = <<>>)
        /\ (AllOk /\ advances <= Len(query.ids)) =>
              (Len(calls) = advances /\ Len(acquisitions) = advances)
        /\ Len(calls) <= advances
        /\ Len(calls) <= Len(query.ids)
        /\ Len(acquisitions) = Len(calls)
C1_Witness ==
    /\ pipeline \in GetManyPipelines
    /\ outcome = "generator"
    /\ Len(query.ids) = 2
    /\ advances = 2
    /\ AllOk
    /\ Len(calls) = 2
    /\ Len(acquisitions) = 2

\* C2: in each of the six pipelines a query without its required key, or with
\* none of continent / region / platform, ends in ValidationError with no
\* limiter lookup and no network call.
C2_FailClosed ==
    (pipeline # "none" /\ (RequiredKey[pipeline] \notin DOMAIN input \/ ~HasLocation(input))) =>
        /\ outcome = "ValidationError"
        /\ calls = <<>>
        /\ acquisitions = <<>>
C2_Witness ==
    /\ pipeline = "get_match"
    /\ "id" \notin DOMAIN input
    /\ HasLocation(input)
    /\ outcome = "ValidationError"

\* C3 as stated: the explicit continent wins, then the region's continent,
\* then the platform's.
C3_ContinentFirst == HasResolved => Resolved = ContinentFirst(input)
\* C3 amended: in the five pipelines that resolve a continent the platform's
\* continent wins, then the region's, then the explicit continent.
C3_PlatformFirst == HasResolved => Resolved = PlatformFirst(input)
C3_Witness ==
    /\ pipeline = "get_match"
    /\ LocationKeys \subseteq DOMAIN input
    /\ calls # <<>>
    /\ Resolved = "EUROPE"

\* C4: on a not-found answer get_match and get_match_timeline raise
\* NotFoundError and return nothing; get_match_list returns a MatchListDto with
\* empty match_ids, the resolved continent and the puuid.
C4_NotFound ==
    (pipeline \in GetPipelines /\ responses = <<"not_found">>) =>
        /\ pipeline \in {"get_match", "get_match_timeline"} =>
              (outcome = "NotFoundError" /\ result = NoValue)
        /\ pipeline = "get_match_list" =>
              /\ outcome = "MatchListDto"
              /\ result.match_ids = <<>>
              /\ result.continent = PlatformFirst(input)
              /\ result.puuid = input.puuid
C4_Witness ==
    /\ pipeline = "get_match_list"
    /\ responses = <<"not_found">>
    /\ outcome = "MatchListDto"

\* C5: the count parameter of get_match_list is 100 when maxNumberOfMatches is
\* missing or zero and the supplied value otherwise; start is beginIndex when
\* supplied and 0 otherwise.
C5_Pagination ==
    (pipeline = "get_match_list" /\ calls # <<>>) =>
        /\ calls[1].params.count =
              (IF "maxNumberOfMatches" \notin DOMAIN input \/ input.maxNumberOfMatches = 0
               THEN 100 ELSE input.maxNumberOfMatches)
        /\ calls[1].params.start =
              (IF "beginIndex" \in DOMAIN input THEN input.beginIndex ELSE 0)
C5_Witness ==
    /\ pipeline = "get_match_list"
    /\ calls # <<>>
    /\ "maxNumberOfMatches" \in DOMAIN input
    /\ input.maxNumberOfMatches = 0
    /\ calls[1].params.count = 100

\* C6: get_many_match_list is registered, and for every query that passes its
\* validation it raises NotImplementedError, returns no sequence and makes no
\* limiter lookup and no network call.
C6_NotImplemented ==
    /\ Registry.get_many.MatchListDto = "get_many_match_list"
    /\ (pipeline = "get_many_match_list" /\ "puuid" \in DOMAIN input /\ HasLocation(input)) =>
          /\ outcome = "NotImplementedError"
          /\ outcome \notin {"ValidationError", "NotFoundError", "TransportError"}
          /\ gen = NoGen
          /\ result = NoValue
          /\ calls = <<>>
          /\ acquisitions = <<>>
C6_Witness ==
    /\ pipeline = "get_many_match_list"
    /\ "puuid" \in DOMAIN input
    /\ HasLocation(input)
    /\ outcome = "NotImplementedError"

\* C7: get_match gives every participant a bot flag, TRUE exactly when the
\* participant carries no puuid (the key is missing or null); get_many_match
\* marks every participant identity whose currentAccountId is 0 as a bot.
C7_Bots ==
    /\ (pipeline = "get_match" /\ outcome = "MatchDto") =>
          /\ DOMAIN result.participants = DOMAIN raw.info.participants
          /\ \A i \in DOMAIN raw.info.participants :
                LET r == raw.info.participants[i]
                    p == result.participants[i]
                IN /\ "bot" \in DOMAIN p
                   /\ p.bot = ("puuid" \notin DOMAIN r \/ r.puuid = None)
    /\ (pipeline = "get_many_match" /\ lastNext = "yield") =>
          /\ DOMAIN result.participantIdentities = DOMAIN raw.participantIdentities
          /\ \A i \in DOMAIN raw.participantIdentities :
                LET r == raw.participantIdentities[i]
                    p == result.participantIdentities[i]
                IN ("player" \in DOMAIN r /\ r.player.currentAccountId = 0) =>
                      ("bot" \in DOMAIN p.player /\ p.player.bot = TRUE)
C7_Witness ==
    /\ pipeline = "get_match"
    /\ outcome = "MatchDto"
    /\ Len(result.participants) = 1
    /\ "puuid" \in DOMAIN raw.info.participants[1]
    /\ raw.info.participants[1].puuid # None
    /\ result.participants[1].bot = FALSE

\* C8: every call is gated by the two limiters of a pair looked up for that
\* call, keyed by the continent of the call's host and by the pipeline's
\* endpoint family, also when the caller rewrites the mapping between creating
\* and consuming a get-many sequence.
C8_LimiterKeyedByHost ==
    \A i \in DOMAIN calls :
        /\ Lower(calls[i].app_limiter.continent) = Lower(calls[i].url.host)
        /\ Lower(calls[i].method_limiter.continent) = Lower(calls[i].url.host)
        /\ calls[i].method_limiter.endpoint = EndpointFamily[pipeline]
        /\ calls[i].app_limiter.lookup = i
        /\ calls[i].method_limiter.lookup = i

\* C9: a v4 path goes to a platform (shard) host, a v5 path to a continent
\* (macro-region) host, in every request.
C9_UrlFamilies ==
    \A i \in DOMAIN calls :
        /\ calls[i].url.version = "v4" => Lower(calls[i].url.host) \in PlatformHosts
        /\ calls[i].url.version = "v5" =>
              Lower(calls[i].url.host) \in {Lower(c) : c \in Continents}

\* C10: when the fetch of the k-th id is the first to report not-found, the
\* k-1 advances before it yielded the first k-1 ids in order, the k-th advance
\* raised NotFoundError, exactly k calls were made (one per id, in order), and
\* the generator is finished: later advances stop without a call.
C10_NotFoundEndsSequence ==
    \A k \in DOMAIN responses :
        (/\ pipeline \in GetManyPipelines
         /\ responses[k] = "not_found"
         /\ \A j \in 1..(k - 1) : responses[j] = "ok") =>
            /\ yielded = SubSeq(query.ids, 1, k - 1)
            /\ Len(calls) = k
            /\ \A i \in 1..k : calls[i].url.id = query.ids[i]
            /\ gen.state = "finished"
            /\ advances >= k
            /\ advances = k => lastNext = "NotFoundError"
            /\ advances > k => lastNext = "StopIteration"
C10_Witness ==
    /\ pipeline \in GetManyPipelines
    /\ outcome = "generator"
    /\ Len(query.ids) = 2
    /\ responses = <<"not_found">>
    /\ advances = 2
    /\ lastNext = "StopIteration"
    /\ Len(calls) = 1
====
